---- MODULE Spec2Model ----
(***************************************************************************)
(* A model of the ImageConverter component of tiny-img                     *)
(* (src/src/components/ImageConverter.tsx): the React state of the         *)
(* component, the file-batch and URL conversion pipelines with their       *)
(* asynchronous callbacks (img.onload / img.onerror / canvas.toBlob /      *)
(* fetch), the result collection and the summary statistics rendered       *)
(* from it.                                                                *)
(*                                                                         *)
(* Scheduling: one UI thread.  Every action below is one macrotask (a user *)
(* event or a browser callback) together with the promise continuations    *)
(* (microtasks) it triggers and the re-render that follows.                *)
(***************************************************************************)
EXTENDS Integers, Sequences, FiniteSets, TLC

VARIABLES
  images,           \* useState<ConvertedImage[]>           (line 15)
  isProcessing,     \* useState(false)                      (line 16)
  isProcessingUrl,  \* useState(false)                      (line 17)
  imageUrl,         \* useState(''), a sequence of characters (line 21)
  batches,          \* one record per handleFiles invocation, in call order
  urlJob,           \* the convertImageFromUrl promise in flight, if any
  urlLog,           \* one record per handleUrlConvert invocation that ran
  revoked,          \* preview handles passed to URL.revokeObjectURL
  appended,         \* appended[id]: how often result id was added to images
  totalSavings,     \* the value computed at line 254 by the last render
  averageSavings    \* the "Average Savings" figure of the last render,
                    \* <<>> when the Summary Stats block is not rendered

vars == <<images, isProcessing, isProcessingUrl, imageUrl, batches, urlJob,
          urlLog, revoked, appended, totalSavings, averageSavings>>

(***************************************************************************)
(* Bounds of the model.                                                    *)
(***************************************************************************)
MaxBatches == 2     \* handleFiles invocations in one run
MaxFiles == 2       \* files in one FileList
MaxUrl == 1         \* handleUrlConvert invocations in one run

(***************************************************************************)
(* JavaScript numbers: the integers, NaN and the two infinities.           *)
(***************************************************************************)
Num(n) == [k |-> "num", v |-> n]
NaN == [k |-> "NaN", v |-> 0]
PosInf == [k |-> "Infinity", v |-> 0]
NegInf == [k |-> "-Infinity", v |-> 0]

IsFinite(x) == x.k = "num"

\* a + b on JavaScript numbers
JSAdd(a, b) ==
  IF a.k = "NaN" \/ b.k = "NaN" THEN NaN
  ELSE IF a.k = "num" /\ b.k = "num" THEN Num(a.v + b.v)
  ELSE IF a.k = "num" THEN b
  ELSE IF b.k = "num" THEN a
  ELSE IF a.k = b.k THEN a
  ELSE NaN

\* Math.round(n / d) for integers n and d > 0: halves round towards +Infinity.
\* The quotient is exact here; the double arithmetic of the source gives the
\* same integer except at some exact halves ((1 - 17/40) * 100 is a little
\* under 57.5), which the sizes drawn below stay clear of.
RoundDiv(n, d) == (2 * n + d) \div (2 * d)

\* Math.round(a / len) for a JavaScript number a and an array length len
JSRoundDiv(a, len) ==
  IF a.k = "NaN" THEN NaN
  ELSE IF len = 0
    THEN (IF a.k = "num" /\ a.v = 0 THEN NaN
          ELSE IF a.k = "-Infinity" \/ (a.k = "num" /\ a.v < 0) THEN NegInf
          ELSE PosInf)
  ELSE IF a.k = "num" THEN Num(RoundDiv(a.v, len))
  ELSE a

\* Math.round((1 - converted / original) * 100), sizes being byte counts >= 0
CompressionRatio(converted, original) ==
  IF original = 0
    THEN (IF converted = 0 THEN NaN ELSE NegInf)
    ELSE Num(RoundDiv((original - converted) * 100, original))

(***************************************************************************)
(* Text.  A string is a sequence of one-character strings, so that trim    *)
(* and parseInt are computed and not assumed.                              *)
(***************************************************************************)
Digits == {"0", "1", "2", "3", "4", "5", "6", "7", "8", "9"}

DigitVal(c) ==
  CASE c = "0" -> 0 [] c = "1" -> 1 [] c = "2" -> 2 [] c = "3" -> 3
    [] c = "4" -> 4 [] c = "5" -> 5 [] c = "6" -> 6 [] c = "7" -> 7
    [] c = "8" -> 8 [] c = "9" -> 9

RECURSIVE TrimStart(_)
TrimStart(s) ==
  IF s # <<>> /\ Head(s) = " " THEN TrimStart(Tail(s)) ELSE s

RECURSIVE TrimEnd(_)
TrimEnd(s) ==
  IF s # <<>> /\ s[Len(s)] = " " THEN TrimEnd(SubSeq(s, 1, Len(s) - 1)) ELSE s

\* String.prototype.trim
Trim(s) == TrimEnd(TrimStart(s))

\* the number of leading decimal digits of s
RECURSIVE DigitPrefix(_)
DigitPrefix(s) ==
  IF s # <<>> /\ Head(s) \in Digits THEN 1 + DigitPrefix(Tail(s)) ELSE 0

\* the value of the first n characters of s, all digits
RECURSIVE DecValue(_, _)
DecValue(s, n) ==
  IF n = 0 THEN 0 ELSE 10 * DecValue(s, n - 1) + DigitVal(s[n])

\* parseInt(s): leading white space, an optional sign, the longest prefix of
\* digits; NaN when there is no digit
ParseInt(s) ==
  LET t == TrimStart(s)
      neg == t # <<>> /\ Head(t) = "-"
      u == IF t # <<>> /\ Head(t) \in {"-", "+"} THEN Tail(t) ELSE t
      n == DigitPrefix(u)
  IN  IF n = 0 THEN NaN
      ELSE Num(IF neg THEN 0 - DecValue(u, n) ELSE DecValue(u, n))

(***************************************************************************)
(* convertImageFromUrl, lines 70-72: the source size of a fetched image.   *)
(* header is response.headers.get('content-length'): <<>> for null, <<s>>  *)
(* for the string s; blobSize is imageBlob.size.                           *)
(***************************************************************************)
ActualOriginalSizeUnchecked(header, blobSize) ==
  LET text == IF header = <<>> \/ header[1] = <<>> THEN <<"0">> ELSE header[1]
      actualFileSize == ParseInt(text)
  IN  IF actualFileSize.k = "num" THEN actualFileSize.v ELSE blobSize

ActualOriginalSize(header, blobSize) ==
  LET text == IF header = <<>> \/ header[1] = <<>> THEN <<"0">> ELSE header[1]
      actualFileSize == ParseInt(text)
  IN  IF actualFileSize.k = "num" /\ actualFileSize.v > 0
        THEN actualFileSize.v
        ELSE blobSize

(***************************************************************************)
(* handleFiles, lines 165-167: the filter of the FileList.  A MIME type    *)
(* "image/png" is the pair <<"image", "png">>.                             *)
(***************************************************************************)
AcceptedTypes ==
  {<<"image", "jpeg">>, <<"image", "png">>, <<"image", "gif">>,
   <<"image", "bmp">>}

IsValidFileAnyImage(file) == file.type[1] = "image"

IsValidFile(file) == file.type[1] = "image" /\ file.type \in AcceptedTypes

ValidFiles(files) == SelectSeq(files, IsValidFile)

(***************************************************************************)
(* The render: line 254 and the Summary Stats block, lines 437-451.        *)
(***************************************************************************)
\* images.reduce((acc, img) => acc + (img.originalSize - img.convertedSize), 0)
RECURSIVE ReduceSavings(_, _)
ReduceSavings(imgs, acc) ==
  IF imgs = <<>> THEN acc
  ELSE ReduceSavings(Tail(imgs),
                     acc + (Head(imgs).originalSize - Head(imgs).convertedSize))

TotalSavingsSeeded(imgs) ==
  IF imgs = <<>> THEN 0
  ELSE ReduceSavings(Tail(imgs), Head(imgs).originalSize)

TotalSavings(imgs) == ReduceSavings(imgs, 0)

\* images.reduce((acc, img) => acc + img.compressionRatio, 0)
RECURSIVE ReduceRatio(_, _)
ReduceRatio(imgs, acc) ==
  IF imgs = <<>> THEN acc
  ELSE ReduceRatio(Tail(imgs), JSAdd(acc, Head(imgs).compressionRatio))

\* {images.length > 0 && ( ... Math.round(reduce / images.length) ... )}
AverageSavingsUnguarded(imgs) ==
  <<JSRoundDiv(ReduceRatio(imgs, Num(0)), Len(imgs))>>

AverageSavings(imgs) ==
  IF Len(imgs) > 0
    THEN <<JSRoundDiv(ReduceRatio(imgs, Num(0)), Len(imgs))>>
    ELSE <<>>

(***************************************************************************)
(* Results.  Math.random ids and object URLs are fresh: the id of a result *)
(* is its creation rank, and its preview handle carries the same number.   *)
(***************************************************************************)
NextId == Len(appended) + 1

\* lines 40-48 and 93-101: the ConvertedImage literal
ConvertedImage(id, file, originalSize, blobSize) ==
  [id |-> id,
   originalFile |-> file,
   originalSize |-> originalSize,
   convertedSize |-> blobSize,
   compressionRatio |-> CompressionRatio(blobSize, originalSize),
   preview |-> id]

Ids(imgs) == {imgs[k].id : k \in DOMAIN imgs}

(***************************************************************************)
(* A batch: one handleFiles invocation.  tasks[i] is the promise that      *)
(* convertImageToWebP returned for the i-th accepted file.                 *)
(***************************************************************************)
\* late: the task settled after the Promise.all of its batch had rejected
NewTask(file) ==
  [file |-> file, state |-> "loading", result |-> <<>>, late |-> FALSE]

ValidationMsg == "Please select valid image files (JPEG, PNG, GIF, BMP)"
BatchErrorMsg == "Error converting images. Please try again."
UrlErrorMsg ==
  "Failed to fetch image from URL. Please check the URL and try again."
UrlLoadErrorMsg ==
  "Failed to load image from URL. Please check the URL and try again."
UrlEncodeErrorMsg == "Failed to convert image to WebP"

\* Promise.all over the tasks of a batch (line 175): rejected with the first
\* rejection, fulfilled once every task is resolved
PromiseAllSettled(tasks) ==
  IF \A i \in DOMAIN tasks : tasks[i].state \in {"resolved", "rejected"}
    THEN "fulfilled"
    ELSE "pending"

PromiseAll(tasks) ==
  IF \E i \in DOMAIN tasks : tasks[i].state = "rejected" THEN "rejected"
  ELSE IF \A i \in DOMAIN tasks : tasks[i].state = "resolved" THEN "fulfilled"
  ELSE "pending"

\* the array Promise.all fulfils with: the results in the order of validFiles
RECURSIVE InsertById(_, _)
InsertById(r, rs) ==
  IF rs = <<>> THEN <<r>>
  ELSE IF r.id < Head(rs).id THEN <<r>> \o rs
  ELSE <<Head(rs)>> \o InsertById(r, Tail(rs))

RECURSIVE ResultsInCompletionOrder(_)
ResultsInCompletionOrder(tasks) ==
  IF tasks = <<>> THEN <<>>
  ELSE IF Head(tasks).result = <<>> THEN ResultsInCompletionOrder(Tail(tasks))
  ELSE InsertById(Head(tasks).result[1], ResultsInCompletionOrder(Tail(tasks)))

RECURSIVE ConvertedImages(_)
ConvertedImages(tasks) ==
  IF tasks = <<>> THEN <<>>
  ELSE Head(tasks).result \o ConvertedImages(Tail(tasks))

\* setImages(prev => [...prev, ...convertedImages]), lines 178 and 245
AppendOverwriting(prev, converted) == converted

AppendTwice(prev, converted) == prev \o converted \o converted

AppendImages(prev, converted) == prev \o converted

\* what the settling of task i does to the tasks of its batch: nothing but
\* task i changes (no abort signal links the promises of lines 24-58)
SettleTaskAbortingSiblings(tasks, i, task) ==
  [j \in DOMAIN tasks |->
     IF j = i THEN task
     ELSE IF task.state = "rejected" /\ tasks[j].state \in {"loading", "encoding"}
       THEN [tasks[j] EXCEPT !.state = "rejected"]
       ELSE tasks[j]]

SettleTask(tasks, i, task) == [tasks EXCEPT ![i] = task]

\* images.forEach(image => URL.revokeObjectURL(image.preview)), line 235
RevokeAllButLast(imgs) == {imgs[k].preview : k \in 1..(Len(imgs) - 1)}

RevokedByClearAll(imgs) == {imgs[k].preview : k \in DOMAIN imgs}

(***************************************************************************)
(* The state after construction (lines 15-21).                             *)
(***************************************************************************)
IdleJob == [stage |-> "idle", url |-> <<>>, originalSize |-> 0, blob |-> <<>>]

Init ==
  /\ images = <<>>
  /\ isProcessing = FALSE
  /\ isProcessingUrl = FALSE
  /\ imageUrl = <<>>
  /\ batches = <<>>
  /\ urlJob = IdleJob
  /\ urlLog = <<>>
  /\ revoked = {}
  /\ appended = <<>>
  /\ totalSavings = TotalSavings(<<>>)
  /\ averageSavings = AverageSavings(<<>>)

\* the re-render that follows every state change
Render ==
  /\ totalSavings' = TotalSavings(images')
  /\ averageSavings' = AverageSavings(images')

\* appended, after the results of added were put into images
CountAppends(app, added) ==
  [id \in DOMAIN app |->
     app[id] + Cardinality({k \in DOMAIN added : added[k].id = id})]

(***************************************************************************)
(* handleFiles(files), lines 163-185, up to its await.                     *)
(***************************************************************************)
HandleFiles(files) ==
  /\ Len(batches) < MaxBatches
  /\ LET validFiles == ValidFiles(files)
     IN  IF Len(validFiles) = 0
           THEN /\ isProcessing' = FALSE
                /\ batches' = Append(batches,
                     [files |-> files, tasks |-> <<>>, status |-> "invalid",
                      alerts |-> <<ValidationMsg>>])
           ELSE /\ isProcessing' = TRUE
                /\ batches' = Append(batches,
                     [files |-> files,
                      tasks |-> [i \in DOMAIN validFiles |-> NewTask(validFiles[i])],
                      status |-> "pending", alerts |-> <<>>])
  /\ UNCHANGED <<images, isProcessingUrl, imageUrl, urlJob, urlLog, revoked,
                 appended>>
  /\ Render

\* handleDrop, lines 187-193: the drop zone is never disabled
HandleDrop(files) == HandleFiles(files)

\* handleFileInput, lines 205-209: the input is disabled while isProcessing
HandleFileInput(files) ==
  /\ ~isProcessing
  /\ HandleFiles(files)

(***************************************************************************)
(* The settling of task i of batch b, and with it the rest of handleFiles  *)
(* (lines 175-184) when that settles the batch's Promise.all.              *)
(***************************************************************************)
TaskSettles(b, i, task, app) ==
  LET old == batches[b]
      tasks == SettleTask(old.tasks, i,
                          [task EXCEPT !.late = (old.status # "pending")])
      status == IF old.status = "pending" THEN PromiseAll(tasks) ELSE old.status
      settles == old.status = "pending" /\ status # "pending"
      converted == ConvertedImages(tasks)
  IN  /\ batches' = [batches EXCEPT ![b] =
                       [old EXCEPT !.tasks = tasks,
                                   !.status = status,
                                   !.alerts = IF settles /\ status = "rejected"
                                                THEN Append(@, BatchErrorMsg)
                                                ELSE @]]
      /\ IF settles /\ status = "fulfilled"
           THEN /\ images' = AppendImages(images, converted)
                /\ appended' = CountAppends(app, converted)
           ELSE /\ images' = images
                /\ appended' = app
      /\ isProcessing' = IF settles THEN FALSE ELSE isProcessing
      /\ UNCHANGED <<isProcessingUrl, imageUrl, urlJob, urlLog, revoked>>
      /\ Render

\* img.onload, lines 29-54: draws the image and asks the canvas for a blob
ImgOnLoad(b, i) ==
  /\ batches[b].tasks[i].state = "loading"
  /\ batches' = [batches EXCEPT ![b].tasks[i].state = "encoding"]
  /\ UNCHANGED <<images, isProcessing, isProcessingUrl, imageUrl, urlJob,
                 urlLog, revoked, appended>>
  /\ Render

\* img.onerror, line 56
ImgOnError(b, i) ==
  /\ batches[b].tasks[i].state = "loading"
  /\ TaskSettles(b, i, [batches[b].tasks[i] EXCEPT !.state = "rejected"],
                 appended)

\* the toBlob callback with a blob of blobSize bytes, lines 39-49
ToBlobCallback(b, i, blobSize) ==
  /\ batches[b].tasks[i].state = "encoding"
  /\ LET t == batches[b].tasks[i]
         r == ConvertedImage(NextId, t.file, t.file.size, blobSize)
     IN  TaskSettles(b, i, [t EXCEPT !.state = "resolved", !.result = <<r>>],
                     Append(appended, 0))

\* the toBlob callback with null, lines 50-52
ToBlobNull(b, i) ==
  /\ batches[b].tasks[i].state = "encoding"
  /\ TaskSettles(b, i, [batches[b].tasks[i] EXCEPT !.state = "rejected"],
                 appended)

(***************************************************************************)
(* clearAll, lines 234-237.  The button is rendered only while the         *)
(* collection is not empty (line 463).                                     *)
(***************************************************************************)
ClearAll ==
  /\ Len(images) > 0
  /\ revoked' = revoked \union RevokedByClearAll(images)
  /\ images' = <<>>
  /\ UNCHANGED <<isProcessing, isProcessingUrl, imageUrl, batches, urlJob,
                 urlLog, appended>>
  /\ Render

(***************************************************************************)
(* The URL path: handleUrlConvert (lines 239-253) awaiting the promise of  *)
(* convertImageFromUrl (lines 61-116).  Lines 117-161 are the remains of   *)
(* an earlier variant that no caller reaches and are not modelled.         *)
(***************************************************************************)
\* onChange of the URL input, line 393; the input is disabled while
\* isProcessingUrl (line 405)
SetImageUrl(text) ==
  /\ ~isProcessingUrl
  /\ imageUrl' = text
  /\ UNCHANGED <<images, isProcessing, isProcessingUrl, batches, urlJob,
                 urlLog, revoked, appended>>
  /\ Render

\* handleUrlConvert up to its await; the button and the Enter key are
\* disabled while isProcessingUrl (lines 395 and 409)
HandleUrlConvert ==
  /\ Len(urlLog) < MaxUrl
  /\ ~isProcessingUrl
  /\ Trim(imageUrl) # <<>>
  /\ isProcessingUrl' = TRUE
  /\ urlJob' = [IdleJob EXCEPT !.stage = "fetching", !.url = Trim(imageUrl)]
  /\ urlLog' = Append(urlLog,
       [url |-> Trim(imageUrl), header |-> <<>>, blobSize |-> 0,
        status |-> "pending", alerts |-> <<>>, result |-> <<>>])
  /\ UNCHANGED <<images, isProcessing, imageUrl, batches, revoked, appended>>
  /\ Render

\* the promise rejects: the catch and finally blocks of lines 247-252
UrlRejectsClearingInput(msg) ==
  /\ urlJob' = IdleJob
  /\ urlLog' = [urlLog EXCEPT ![Len(urlLog)].status = "failed",
                              ![Len(urlLog)].alerts = Append(@, msg)]
  /\ isProcessingUrl' = FALSE
  /\ imageUrl' = <<>>
  /\ UNCHANGED <<images, isProcessing, batches, revoked, appended>>
  /\ Render

UrlRejects(msg) ==
  /\ urlJob' = IdleJob
  /\ urlLog' = [urlLog EXCEPT ![Len(urlLog)].status = "failed",
                              ![Len(urlLog)].alerts = Append(@, msg)]
  /\ isProcessingUrl' = FALSE
  /\ UNCHANGED <<images, isProcessing, imageUrl, batches, revoked, appended>>
  /\ Render

\* fetch throws, or the response is not ok (lines 65-68 and 112-114)
FetchFails ==
  /\ urlJob.stage = "fetching"
  /\ UrlRejects(UrlErrorMsg)

\* fetch and response.blob() succeed, lines 65-72 and 75-110
FetchResponds(header, blobSize) ==
  /\ urlJob.stage = "fetching"
  /\ urlJob' = [urlJob EXCEPT
       !.stage = "loading",
       !.originalSize = ActualOriginalSize(header, blobSize),
       !.blob = <<[type |-> <<"image", "jpeg">>, size |-> blobSize]>>]
  /\ urlLog' = [urlLog EXCEPT ![Len(urlLog)].header = header,
                              ![Len(urlLog)].blobSize = blobSize]
  /\ UNCHANGED <<images, isProcessing, isProcessingUrl, imageUrl, batches,
                 revoked, appended>>
  /\ Render

\* img.onload, lines 78-107
UrlImgOnLoad ==
  /\ urlJob.stage = "loading"
  /\ urlJob' = [urlJob EXCEPT !.stage = "encoding"]
  /\ UNCHANGED <<images, isProcessing, isProcessingUrl, imageUrl, batches,
                 urlLog, revoked, appended>>
  /\ Render

\* img.onerror, line 109
UrlImgOnError ==
  /\ urlJob.stage = "loading"
  /\ UrlRejects(UrlLoadErrorMsg)

\* the toBlob callback with a blob, lines 88-102, then lines 245-246 and 251
UrlToBlobCallback(blobSize) ==
  /\ urlJob.stage = "encoding"
  /\ LET r == ConvertedImage(NextId, urlJob.blob[1], urlJob.originalSize,
                             blobSize)
     IN  /\ images' = AppendImages(images, <<r>>)
         /\ appended' = CountAppends(Append(appended, 0), <<r>>)
         /\ urlLog' = [urlLog EXCEPT ![Len(urlLog)].status = "ok",
                                     ![Len(urlLog)].result = <<r>>]
  /\ imageUrl' = <<>>
  /\ isProcessingUrl' = FALSE
  /\ urlJob' = IdleJob
  /\ UNCHANGED <<isProcessing, batches, revoked>>
  /\ Render

\* the toBlob callback with null, lines 103-105
UrlToBlobNull ==
  /\ urlJob.stage = "encoding"
  /\ UrlRejects(UrlEncodeErrorMsg)

(***************************************************************************)
(* Inputs.                                                                 *)
(***************************************************************************)
SeqsUpTo(S, n) == UNION {[1..k -> S] : k \in 0..n}

Png(size) == [type |-> <<"image", "png">>, size |-> size]

\* the inputs of Spec: files of accepted and of refused types, one size
Files ==
  {Png(100),
   [type |-> <<"image", "webp">>, size |-> 100],
   [type |-> <<"text", "plain">>, size |-> 100]}
BlobSizes == {80}
UrlTexts == {<<" ">>, <<"u">>, <<" ", "u", " ">>}
Headers == {<<>>}
PayloadSizes == {100}

\* the inputs of SpecSizes: accepted files of several sizes, the empty
\* file among them, each with the sizes the encoder may give its image
SizedFiles == {Png(0), Png(50), Png(100)}
SizedBlobSizes(file) ==
  IF file.size = 100 THEN {50, 80, 110} ELSE {60}

\* the inputs of SpecUrl: the content-length headers a response may carry
UrlHeaders ==
  {<<>>, << <<>> >>, << <<"1", "0", "0", "0">> >>, << <<"0">> >>,
   << <<"a", "b">> >>, << <<"1", "2", "x">> >>, << <<"-", "5">> >>}
UrlPayloadSizes == {500}
UrlBlobSizes == {400}

Tasks == {<<b, i>> : b \in 1..MaxBatches, i \in 1..MaxFiles}

TaskAt(b, i) == b \in DOMAIN batches /\ i \in DOMAIN batches[b].tasks

(***************************************************************************)
(* Spec: batches and a URL conversion in flight at the same time, dropped  *)
(* or picked, of files of accepted and refused types.                      *)
(***************************************************************************)
Next ==
  \/ \E files \in SeqsUpTo(Files, MaxFiles) : HandleDrop(files)
  \/ \E files \in SeqsUpTo(Files, MaxFiles) : HandleFileInput(files)
  \/ \E t \in Tasks : TaskAt(t[1], t[2]) /\ ImgOnLoad(t[1], t[2])
  \/ \E t \in Tasks : TaskAt(t[1], t[2]) /\ ImgOnError(t[1], t[2])
  \/ \E t \in Tasks, s \in BlobSizes :
       TaskAt(t[1], t[2]) /\ ToBlobCallback(t[1], t[2], s)
  \/ \E t \in Tasks : TaskAt(t[1], t[2]) /\ ToBlobNull(t[1], t[2])
  \/ ClearAll
  \/ \E text \in UrlTexts : SetImageUrl(text)
  \/ HandleUrlConvert
  \/ FetchFails
  \/ \E h \in Headers, s \in PayloadSizes : FetchResponds(h, s)
  \/ UrlImgOnLoad
  \/ UrlImgOnError
  \/ \E s \in BlobSizes : UrlToBlobCallback(s)
  \/ UrlToBlobNull

Spec == Init /\ [][Next]_vars

(***************************************************************************)
(* SpecSizes: picked batches of accepted files of every size.              *)
(***************************************************************************)
NextSizes ==
  \/ \E files \in SeqsUpTo(SizedFiles, MaxFiles) : HandleFileInput(files)
  \/ \E t \in Tasks : TaskAt(t[1], t[2]) /\ ImgOnLoad(t[1], t[2])
  \/ \E t \in Tasks : TaskAt(t[1], t[2]) /\ ImgOnError(t[1], t[2])
  \/ \E t \in Tasks :
       /\ TaskAt(t[1], t[2])
       /\ \E s \in SizedBlobSizes(batches[t[1]].tasks[t[2]].file) :
            ToBlobCallback(t[1], t[2], s)
  \/ \E t \in Tasks : TaskAt(t[1], t[2]) /\ ToBlobNull(t[1], t[2])
  \/ ClearAll

SpecSizes == Init /\ [][NextSizes]_vars

(***************************************************************************)
(* SpecUrl: URL conversions of responses with every kind of content-length *)
(* header.                                                                 *)
(***************************************************************************)
NextUrl ==
  \/ \E text \in UrlTexts : SetImageUrl(text)
  \/ HandleUrlConvert
  \/ FetchFails
  \/ \E h \in UrlHeaders, s \in UrlPayloadSizes : FetchResponds(h, s)
  \/ UrlImgOnLoad
  \/ UrlImgOnError
  \/ \E s \in UrlBlobSizes : UrlToBlobCallback(s)
  \/ UrlToBlobNull
  \/ ClearAll

SpecUrl == Init /\ [][NextUrl]_vars

(***************************************************************************)
(* Properties.                                                             *)
(***************************************************************************)
Failed(b) == \E i \in DOMAIN batches[b].tasks : batches[b].tasks[i].state = "rejected"

FailedNext(b) ==
  \E i \in DOMAIN batches'[b].tasks : batches'[b].tasks[i].state = "rejected"

\* the ids of the results the tasks of batch b created
BatchResultIds(b) ==
  {batches[b].tasks[i].result[1].id :
     i \in {j \in DOMAIN batches[b].tasks : batches[b].tasks[j].result # <<>>}}

\* C1, as a property of every state: a batch with a failed task has none of
\* its results in the collection, none was ever appended, and it surfaced
\* exactly one aggregate error
C1_State ==
  \A b \in DOMAIN batches :
    Failed(b) =>
      /\ \A id \in BatchResultIds(b) : appended[id] = 0 /\ id \notin Ids(images)
      /\ batches[b].alerts = <<BatchErrorMsg>>

\* C1, as a property of every step: the step in which a task of a batch
\* first fails leaves the collection exactly as it was
C1_Step ==
  \A b \in DOMAIN batches :
    (~Failed(b) /\ FailedNext(b)) => images' = images

\* C1: all-or-nothing batch: if a task of a batch fails, no result of the
\* batch is ever appended to images, the collection (the results of earlier
\* batches included) is left as it was, and exactly one aggregate error is
\* surfaced for the batch
C1_AllOrNothing == [][C1_Step]_vars /\ []C1_State

\* a batch with a rejected and a resolved task, one of them settled after
\* the batch had failed, while results of an earlier batch are in images
C1_Witness ==
  \E b \in DOMAIN batches :
    /\ Failed(b)
    /\ BatchResultIds(b) # {}
    /\ batches[b].alerts = <<BatchErrorMsg>>
    /\ \E a \in DOMAIN batches :
         /\ a # b
         /\ batches[a].status = "fulfilled"
         /\ BatchResultIds(a) = Ids(images)

\* batch b was submitted with no file of an accepted MIME type
NoneAccepted(fs) ==
  \A k \in DOMAIN fs :
    fs[k].type \notin {<<"image", "jpeg">>, <<"image", "png">>,
                       <<"image", "gif">>, <<"image", "bmp">>}

C2_State ==
  \A b \in DOMAIN batches :
    NoneAccepted(batches[b].files) =>
      /\ batches[b].tasks = <<>>
      /\ batches[b].alerts = <<ValidationMsg>>

C2_Step ==
  (/\ Len(batches') = Len(batches) + 1
   /\ NoneAccepted(batches'[Len(batches')].files))
  => /\ images' = images
     /\ isProcessing' = FALSE
     /\ appended' = appended

\* C2: a batch whose files all have a MIME type outside {image/jpeg,
\* image/png, image/gif, image/bmp} starts no conversion task, leaves images
\* unmodified, surfaces one validation message and leaves isProcessing false
\* when handleFiles returns
C2_RejectedBatch == [][C2_Step]_vars /\ []C2_State

\* a batch of two files of refused types was turned away while the
\* collection held results
C2_Witness ==
  \E b \in DOMAIN batches :
    /\ Len(batches[b].files) = MaxFiles
    /\ NoneAccepted(batches[b].files)
    /\ batches[b].status = "invalid"
    /\ Len(images) > 0
    /\ ~isProcessing

\* the position of the result id among the tasks of batch b
TaskIndex(b, id) ==
  CHOOSE i \in DOMAIN batches[b].tasks :
    batches[b].tasks[i].result # <<>> /\ batches[b].tasks[i].result[1].id = id

\* C3, as stated: the results of one batch appear in images in the order in
\* which their tasks completed (ids are handed out at completion)
C3_CompletionOrder ==
  \A b \in DOMAIN batches :
    \A p, q \in DOMAIN images :
      (/\ p < q
       /\ images[p].id \in BatchResultIds(b)
       /\ images[q].id \in BatchResultIds(b))
      => images[p].id < images[q].id

\* C3, amended: the results of one successful batch appear in images in the
\* order in which their files were submitted, whatever the order in which
\* the tasks completed
C3_SubmissionOrder ==
  \A b \in DOMAIN batches :
    \A p, q \in DOMAIN images :
      (/\ p < q
       /\ images[p].id \in BatchResultIds(b)
       /\ images[q].id \in BatchResultIds(b))
      => TaskIndex(b, images[p].id) < TaskIndex(b, images[q].id)

\* the results of a batch are in images, and the task submitted second
\* completed first
C3_Witness ==
  \E b \in DOMAIN batches :
    /\ batches[b].status = "fulfilled"
    /\ Len(batches[b].tasks) = 2
    /\ batches[b].tasks[2].result[1].id < batches[b].tasks[1].result[1].id
    /\ BatchResultIds(b) \subseteq Ids(images)

\* every ConvertedImage created so far: by a task of a batch, or by a URL
\* conversion
CreatedResults ==
  UNION {{batches[b].tasks[i].result[1] :
            i \in {j \in DOMAIN batches[b].tasks :
                     batches[b].tasks[j].result # <<>>}} :
         b \in DOMAIN batches}
  \union {urlLog[u].result[1] :
            u \in {v \in DOMAIN urlLog : urlLog[v].result # <<>>}}

\* n is Math.round(num / den), for a den > 0: n - 1/2 <= num / den < n + 1/2
IsRounded(n, num, den) ==
  /\ 2 * den * n <= 2 * num + den
  /\ 2 * num + den < 2 * den * (n + 1)

\* C4: for every result created, compressionRatio is a finite number, the
\* rounded percentage round((1 - convertedSize/originalSize) * 100) when
\* originalSize is not 0 and a finite sentinel when it is
C4_FiniteRatio ==
  \A r \in CreatedResults :
    /\ IsFinite(r.compressionRatio)
    /\ r.originalSize > 0 =>
         IsRounded(r.compressionRatio.v,
                   (r.originalSize - r.convertedSize) * 100, r.originalSize)

\* ClearAll's step: what it removes it has revoked
C5_Step ==
  /\ ClearAll =>
       /\ Len(images') = 0
       /\ \A k \in DOMAIN images : images[k].preview \in revoked'
  /\ (\E id \in Ids(images) : id \notin Ids(images')) =>
       /\ Len(images') = 0
       /\ \A k \in DOMAIN images : images[k].preview \in revoked'

\* no handle of a result that was in the collection and is no longer there
\* is unreleased
C5_State ==
  \A id \in DOMAIN appended :
    (appended[id] > 0 /\ id \notin Ids(images)) => id \in revoked

\* C5: after clearAll, from any reachable state, images has length 0 and the
\* preview handle of every result that was in the collection immediately
\* before the call has been revoked; no handle of a removed result stays
\* unreleased
C5_ClearAll == [][C5_Step]_vars /\ []C5_State

\* the collection was cleared of the results of two conversions, while a
\* conversion is still in flight
C5_Witness ==
  /\ Len(images) = 0
  /\ Cardinality(revoked) >= 2
  /\ \E b \in DOMAIN batches : batches[b].status = "pending"

\* s is a decimal integer, with or without a sign
IsNumeric(s) ==
  LET u == IF s # <<>> /\ Head(s) \in {"-", "+"} THEN Tail(s) ELSE s
  IN  u # <<>> /\ DigitPrefix(u) = Len(u)

NumericValue(s) ==
  IF Head(s) = "-" THEN 0 - DecValue(Tail(s), Len(s) - 1)
  ELSE IF Head(s) = "+" THEN DecValue(Tail(s), Len(s) - 1)
  ELSE DecValue(s, Len(s))

ContentLength1000 == << <<"1", "0", "0", "0">> >>

\* C6, as stated: originalSize is the content-length header's value whenever
\* the header is present and numeric, and the payload's byte length exactly
\* when it is absent or not numeric; 1000 and 400 bytes give a ratio of 60
C6_HeaderWhenNumeric ==
  \A u \in DOMAIN urlLog :
    urlLog[u].result # <<>> =>
      LET r == urlLog[u].result[1]
          h == urlLog[u].header
      IN  /\ (h # <<>> /\ IsNumeric(h[1])) => r.originalSize = NumericValue(h[1])
          /\ (h = <<>> \/ ~IsNumeric(h[1])) => r.originalSize = urlLog[u].blobSize
          /\ (h = ContentLength1000 /\ r.convertedSize = 400) =>
               r.compressionRatio = Num(60)

\* C6, amended: originalSize is the integer parseInt reads off the head of
\* the content-length header whenever the header is present and that
\* integer is greater than 0, and the payload's byte length otherwise (no
\* header, no leading digits, zero, a negative number); 1000 and 400 bytes
\* give a ratio of 60
C6_HeaderWhenPositive ==
  \A u \in DOMAIN urlLog :
    urlLog[u].result # <<>> =>
      LET r == urlLog[u].result[1]
          h == urlLog[u].header
          n == IF h = <<>> THEN NaN ELSE ParseInt(h[1])
      IN  /\ r.originalSize =
               IF n.k = "num" /\ n.v > 0 THEN n.v ELSE urlLog[u].blobSize
          /\ h = ContentLength1000 => r.originalSize = 1000
          /\ h = << <<"1", "2", "x">> >> => r.originalSize = 12
          /\ h \in {<<>>, << <<>> >>, << <<"0">> >>, << <<"a", "b">> >>,
                    << <<"-", "5">> >>} => r.originalSize = urlLog[u].blobSize
          /\ (h = ContentLength1000 /\ r.convertedSize = 400) =>
               r.compressionRatio = Num(60)

\* a response with content-length: 1000 was converted to 400 bytes
C6_Witness ==
  \E u \in DOMAIN urlLog :
    /\ urlLog[u].status = "ok"
    /\ urlLog[u].header = ContentLength1000
    /\ urlLog[u].blobSize # 1000
    /\ urlLog[u].result[1].convertedSize = 400
    /\ urlLog[u].result[1].compressionRatio = Num(60)

\* the step in which a task fails changes no other task of its batch
C7_Step ==
  \A b \in DOMAIN batches :
    \A i \in DOMAIN batches[b].tasks :
      (/\ batches[b].tasks[i].state # "rejected"
       /\ batches'[b].tasks[i].state = "rejected")
      => \A j \in DOMAIN batches[b].tasks \ {i} :
           batches'[b].tasks[j] = batches[b].tasks[j]

\* a pending task can always take its next step, whatever became of its
\* siblings and of the batch
C7_State ==
  \A b \in DOMAIN batches :
    \A i \in DOMAIN batches[b].tasks :
      /\ batches[b].tasks[i].state = "loading" =>
           ENABLED ImgOnLoad(b, i) /\ ENABLED ImgOnError(b, i)
      /\ batches[b].tasks[i].state = "encoding" =>
           /\ ENABLED ToBlobNull(b, i)
           /\ \A s \in BlobSizes : ENABLED ToBlobCallback(b, i, s)

\* C7: a decode or encode failure of one file's task is terminal for that
\* item only: it does not abort, cancel or prevent the completion of the
\* sibling tasks of the batch that are still pending, each of which still
\* runs to its own completion or failure
C7_SiblingsRun == [][C7_Step]_vars /\ []C7_State

\* in a batch that failed, a sibling of the failed task resolved afterwards
C7_Witness ==
  \E b \in DOMAIN batches :
    /\ batches[b].status = "rejected"
    /\ \E i \in DOMAIN batches[b].tasks :
         /\ batches[b].tasks[i].state = "resolved"
         /\ batches[b].tasks[i].late

\* every task of batch b has settled
AllSettled(b) ==
  \A i \in DOMAIN batches[b].tasks :
    batches[b].tasks[i].state \in {"resolved", "rejected"}

UrlResultIds ==
  {urlLog[u].result[1].id : u \in {v \in DOMAIN urlLog : urlLog[v].result # <<>>}}

\* C8, as stated: every ConvertedImage a task creates is appended to images
\* exactly once, never twice and, once the tasks of its batch have settled,
\* never zero times
C8_ExactlyOnce ==
  /\ \A id \in DOMAIN appended : appended[id] <= 1
  /\ \A id \in UrlResultIds : appended[id] = 1
  /\ \A b \in DOMAIN batches :
       AllSettled(b) => \A id \in BatchResultIds(b) : appended[id] = 1

\* C8, amended: a ConvertedImage created by a URL conversion, or by a task
\* of a batch all of whose tasks resolve, is appended to images exactly once
\* (when the last task of the batch resolves); one created by a task of a
\* batch in which a task fails is never appended; none is appended twice
C8_OnceIfBatchSucceeds ==
  /\ \A id \in DOMAIN appended : appended[id] <= 1
  /\ \A id \in UrlResultIds : appended[id] = 1
  /\ \A b \in DOMAIN batches :
       \A id \in BatchResultIds(b) :
         appended[id] = IF AllSettled(b) /\ ~Failed(b) THEN 1 ELSE 0
  /\ \A p, q \in DOMAIN images : images[p].id = images[q].id => p = q
  /\ \A p \in DOMAIN images : appended[images[p].id] = 1

\* a batch succeeded and its results were appended once, another failed and
\* the result its task created was never appended, and a URL conversion
\* added its result
C8_Witness ==
  /\ \E b \in DOMAIN batches :
       /\ batches[b].status = "fulfilled"
       /\ \A id \in BatchResultIds(b) : appended[id] = 1
  /\ \E b \in DOMAIN batches :
       /\ batches[b].status = "rejected"
       /\ AllSettled(b)
       /\ \E id \in BatchResultIds(b) : appended[id] = 0
  /\ \E id \in UrlResultIds : appended[id] = 1

\* the sum of the finite ratios of the first n results of imgs
RECURSIVE RatioSum(_, _)
RatioSum(imgs, n) ==
  IF n = 0 THEN 0 ELSE RatioSum(imgs, n - 1) + imgs[n].compressionRatio.v

AllFinite(imgs) == \A k \in DOMAIN imgs : IsFinite(imgs[k].compressionRatio)

Ratios(imgs) == [k \in DOMAIN imgs |-> imgs[k].compressionRatio]

\* C9, as stated: the displayed average is the arithmetic mean of the
\* ratios (20 for 50 and -10), and nothing is computed or displayed while
\* the collection is empty
C9_ExactMean ==
  /\ Len(images) = 0 => averageSavings = <<>>
  /\ (Len(images) > 0 /\ AllFinite(images)) =>
       /\ Len(averageSavings) = 1
       /\ IsFinite(averageSavings[1])
       /\ averageSavings[1].v * Len(images) = RatioSum(images, Len(images))
  /\ Ratios(images) = <<Num(50), Num(-10)>> => averageSavings = <<Num(20)>>

\* C9, amended: the displayed average is the arithmetic mean of the ratios
\* rounded to the nearest integer, halves upwards (20 for 50 and -10; and
\* -Infinity when a ratio is -Infinity), and nothing is computed or
\* displayed while the collection is empty
C9_RoundedMean ==
  /\ Len(images) = 0 => averageSavings = <<>>
  /\ (Len(images) > 0 /\ AllFinite(images)) =>
       /\ Len(averageSavings) = 1
       /\ IsFinite(averageSavings[1])
       /\ IsRounded(averageSavings[1].v, RatioSum(images, Len(images)),
                    Len(images))
  /\ (Len(images) > 0 /\ ~AllFinite(images)) =>
       /\ \A k \in DOMAIN images :
            images[k].compressionRatio.k \in {"num", "-Infinity"}
       /\ averageSavings = <<NegInf>>
  /\ Ratios(images) = <<Num(50), Num(-10)>> => averageSavings = <<Num(20)>>

\* the collection holds results of ratios 50 and -10, and 20 is displayed
C9_Witness ==
  /\ Ratios(images) = <<Num(50), Num(-10)>>
  /\ averageSavings = <<Num(20)>>

RECURSIVE OriginalSum(_, _)
OriginalSum(imgs, n) ==
  IF n = 0 THEN 0 ELSE OriginalSum(imgs, n - 1) + imgs[n].originalSize

RECURSIVE ConvertedSum(_, _)
ConvertedSum(imgs, n) ==
  IF n = 0 THEN 0 ELSE ConvertedSum(imgs, n - 1) + imgs[n].convertedSize

Sizes(imgs) ==
  [k \in DOMAIN imgs |-> <<imgs[k].originalSize, imgs[k].convertedSize>>]

\* C10: in every reachable state totalSavings is the sum over images of
\* (originalSize - convertedSize): 0 for the empty collection, 10 for
\* [(100,80),(50,60)], and negative when the outputs are the larger
C10_TotalSavings ==
  /\ totalSavings =
       OriginalSum(images, Len(images)) - ConvertedSum(images, Len(images))
  /\ images = <<>> => totalSavings = 0
  /\ Sizes(images) = << <<100, 80>>, <<50, 60>> >> => totalSavings = 10
  /\ Sizes(images) = << <<50, 60>> >> => totalSavings = -10

\* the collection [(100,80),(50,60)] with a total of 10
C10_Witness ==
  /\ Sizes(images) = << <<100, 80>>, <<50, 60>> >>
  /\ totalSavings = 10

\* attempt u of handleUrlConvert ends in this step, with the status st
UrlEnds(u, st) ==
  /\ u \in DOMAIN urlLog
  /\ urlLog[u].status = "pending"
  /\ urlLog'[u].status = st

\* the step that ends a URL conversion: a failure appends nothing and keeps
\* the input text, a success appends one result and clears the input; both
\* reset isProcessingUrl
C11_Step ==
  \A u \in 1..MaxUrl + 1 :
    /\ UrlEnds(u, "failed") =>
         /\ images' = images
         /\ appended' = appended
         /\ imageUrl' = imageUrl
         /\ Trim(imageUrl') = urlLog[u].url
         /\ isProcessingUrl' = FALSE
         /\ Len(urlLog'[u].alerts) = 1
    /\ UrlEnds(u, "ok") =>
         /\ Len(images') = Len(images) + 1
         /\ SubSeq(images', 1, Len(images)) = images
         /\ images'[Len(images')] = urlLog'[u].result[1]
         /\ imageUrl' = <<>>
         /\ isProcessingUrl' = FALSE
         /\ urlLog'[u].alerts = <<>>

\* what an ended URL conversion has left behind
C11_State ==
  \A u \in DOMAIN urlLog :
    /\ urlLog[u].status = "pending" =>
         /\ isProcessingUrl
         /\ urlLog[u].alerts = <<>>
         /\ urlLog[u].result = <<>>
         /\ Trim(imageUrl) = urlLog[u].url
    /\ urlLog[u].status = "failed" =>
         /\ urlLog[u].result = <<>>
         /\ Len(urlLog[u].alerts) = 1
         /\ urlLog[u].alerts[1] \in
              {UrlErrorMsg, UrlLoadErrorMsg, UrlEncodeErrorMsg}
    /\ urlLog[u].status = "ok" =>
         /\ urlLog[u].alerts = <<>>
         /\ Len(urlLog[u].result) = 1
         /\ appended[urlLog[u].result[1].id] = 1
    /\ (u = Len(urlLog) /\ urlLog[u].status # "pending") => ~isProcessingUrl

\* C11: a URL conversion that fails at any stage (fetch, decode, encode)
\* appends nothing to images, leaves the URL input text unchanged, surfaces
\* exactly one error message and resets isProcessingUrl to false; only a
\* successful conversion appends exactly one result and clears the input
C11_UrlFailure == [][C11_Step]_vars /\ []C11_State

\* a URL conversion failed at the decode stage: its one message is shown,
\* the text is still in the input and the results of a batch are untouched
C11_Witness ==
  /\ Len(urlLog) > 0
  /\ urlLog[Len(urlLog)].status = "failed"
  /\ urlLog[Len(urlLog)].alerts = <<UrlLoadErrorMsg>>
  /\ Trim(imageUrl) = urlLog[Len(urlLog)].url
  /\ imageUrl # <<>>
  /\ ~isProcessingUrl
  /\ Len(images) > 0

\* the Promise.all of some batch has not settled yet
BatchInFlight == \E b \in DOMAIN batches : batches[b].status = "pending"

\* C12: isProcessing is true whenever a batch started by handleFiles still
\* has pending conversion tasks, also when a second batch is dropped while an
\* earlier one is in flight, and is false once every batch has completed or
\* failed
C12_ProcessingFlag ==
  /\ BatchInFlight => isProcessing
  /\ ~BatchInFlight => ~isProcessing

\* the ids of the results of the batches that succeeded
FulfilledResultIds ==
  UNION {BatchResultIds(b) :
           b \in {a \in DOMAIN batches : batches[a].status = "fulfilled"}}

\* a step that is not clearAll's keeps every result of the collection in its
\* place: it only adds at the end
C13_Step ==
  revoked' = revoked =>
    /\ Len(images') >= Len(images)
    /\ SubSeq(images', 1, Len(images)) = images

\* as long as clearAll has not run, the collection holds the results of
\* every batch and URL conversion that succeeded, each once, those of one
\* batch side by side
C13_State ==
  revoked = {} =>
    /\ Ids(images) = FulfilledResultIds \union UrlResultIds
    /\ \A p, q \in DOMAIN images : images[p].id = images[q].id => p = q
    /\ \A b \in DOMAIN batches :
         \A p, q, r \in DOMAIN images :
           (/\ p < q /\ q < r
            /\ images[p].id \in BatchResultIds(b)
            /\ images[r].id \in BatchResultIds(b))
           => images[q].id \in BatchResultIds(b)

\* C13: no lost updates: with several conversions (file batches, a URL
\* conversion) in flight at once and no clearAll, whatever the order of
\* their completions, images afterwards holds every result it held before
\* and every result of each successful batch or URL conversion exactly once,
\* the results of a batch contiguous; no completion overwrites or drops what
\* another appended
C13_NoLostUpdates == [][C13_Step]_vars /\ []C13_State

\* a batch, another batch and a URL conversion were in flight together (a
\* result of another conversion was created between the two of one batch),
\* all succeeded, and the collection holds all their results
C13_Witness ==
  /\ revoked = {}
  /\ UrlResultIds # {}
  /\ \E a, b \in DOMAIN batches :
       /\ a # b
       /\ batches[a].status = "fulfilled"
       /\ batches[b].status = "fulfilled"
       /\ \E x, z \in BatchResultIds(a) :
            \E y \in BatchResultIds(b) : x < y /\ y < z
  /\ Ids(images) = FulfilledResultIds \union UrlResultIds
  /\ Len(images) >= 4

====
